---- MODULE Spec2Model ----
(***************************************************************************)
(* The performance collector of redfish-exporter                           *)
(* (src/collectors/performance_collector.py) and the part of the scrape    *)
(* handler that drives it (src/handler.py).                                *)
(*                                                                         *)
(* A state is one collection cycle of one PerformanceCollector: the        *)
(* locators (urls), the documents the remote board answers with (world),   *)
(* the four gauge families the collector fills, the log, the list of       *)
(* resources asked of connect_server, the exception in flight and the      *)
(* position of the cycle (pc).                                             *)
(***************************************************************************)
EXTENDS Integers, Sequences, FiniteSets, TLC

VARIABLES urls, world, pc, exc, power_metrics, temperature_metrics,
          fan_speed_metrics, fan_pwm_metrics, log, fetched, rpm_values,
          pwm_values, fan_obj, ret

vars == <<urls, world, pc, exc, power_metrics, temperature_metrics,
          fan_speed_metrics, fan_pwm_metrics, log, fetched, rpm_values,
          pwm_values, fan_obj, ret>>

(***************************************************************************)
(* Bounds of the model.                                                    *)
(***************************************************************************)
MaxMembers == 2
MaxPsus == 2
MaxFans == 3

(***************************************************************************)
(* JSON values.  A key of an object that is missing is Absent, a key whose *)
(* value is null is Null; numbers and strings are tagged, and a string is  *)
(* the sequence of its characters.                                         *)
(***************************************************************************)
Absent == [k |-> "absent"]
Null == [k |-> "null"]
Num(n) == [k |-> "num", v |-> n]
Str(s) == [k |-> "str", v |-> s]
Dict(items) == [k |-> "dict", items |-> items]
Link(id) == [k |-> "link", id |-> id]
Sensor(reading) == [k |-> "sensor", Reading |-> reading]

\* Python's None: what dict.get gives for a missing key, and what null parses to.
None == Null
\* math.nan
NaN == [k |-> "nan"]
\* A Python float, as the fraction num/den.
Float(n, d) == [k |-> "float", num |-> n, den |-> d]

\* dict.get(key): the value, or None when the key is missing.
Get(v) == IF v = Absent THEN None ELSE v
\* dict.get(key, default)
GetDefault(v, default) == IF v = Absent THEN default ELSE v

Unknown == Str(<<"u", "n", "k", "n", "o", "w", "n">>)

(***************************************************************************)
(* Results of a call: the value returned, or the exception raised.         *)
(***************************************************************************)
Return(v) == [exc |-> "none", ret |-> v]
Raise(e) == [exc |-> e, ret |-> None]

(***************************************************************************)
(* float(value) for the strings this model knows: a non-empty run of       *)
(* decimal digits parses to its value, any other string raises ValueError. *)
(***************************************************************************)
Digits == {"0", "1", "2", "3", "4", "5", "6", "7", "8", "9"}

DigitValue(c) ==
    CASE c = "0" -> 0 [] c = "1" -> 1 [] c = "2" -> 2 [] c = "3" -> 3
      [] c = "4" -> 4 [] c = "5" -> 5 [] c = "6" -> 6 [] c = "7" -> 7
      [] c = "8" -> 8 [] c = "9" -> 9

RECURSIVE DecimalValue(_)
DecimalValue(s) ==
    IF s = <<>> THEN 0
    ELSE 10 * DecimalValue(SubSeq(s, 1, Len(s) - 1)) + DigitValue(s[Len(s)])

IsDecimal(s) == s # <<>> /\ \A i \in 1..Len(s) : s[i] \in Digits

\* float(value): a number converts, a numeric string parses, a non-numeric
\* string raises ValueError and any other object raises TypeError.
float(value) ==
    CASE value.k = "num" -> Return(Float(value.v, 1))
      [] value.k = "float" -> Return(value)
      [] value.k = "str" ->
            IF IsDecimal(value.v) THEN Return(Float(DecimalValue(value.v), 1))
            ELSE Raise("ValueError")
      [] OTHER -> Raise("TypeError")

(***************************************************************************)
(* A fan object: the keys the collector reads, each a JSON value or Absent.*)
(***************************************************************************)
RPM == Str(<<"R", "P", "M">>)
Percent == Str(<<"P", "e", "r", "c", "e", "n", "t">>)
PercentSign == Str(<<"%">>)

Dell(fanpwm) == [k |-> "dell", FanPWM |-> fanpwm]
Oem(dell) == [k |-> "oem", Dell |-> dell]

Fan(units, reading, rpm, duty, pct, oem) ==
    [ReadingUnits |-> units, Reading |-> reading, ReadingRPM |-> rpm,
     DutyCyclePercent |-> duty, ReadingPercent |-> pct, Oem |-> oem]

EmptyFan == Fan(Absent, Absent, Absent, Absent, Absent, Absent)

\* not fan_obj: the fan object is None or an empty dict.
IsEmptyFan(fan) == fan = None \/ fan = EmptyFan

\* PerformanceCollector._rpm_from_fan
_rpm_from_fan(fan) ==
    IF IsEmptyFan(fan) THEN None
    ELSE IF Get(fan.ReadingUnits) = RPM /\ Get(fan.Reading) # None
         THEN fan.Reading
    ELSE IF Get(fan.ReadingRPM) # None THEN fan.ReadingRPM
    ELSE None

\* PwmReading with ReadingPercent tried before DutyCyclePercent
PwmReadingPercentFirst(fan) ==
    LET v0 == IF Get(fan.ReadingUnits) \in {Percent, PercentSign}
                 /\ Get(fan.Reading) # None
              THEN fan.Reading ELSE None
        v1 == IF v0 = None /\ Get(fan.ReadingPercent) # None
              THEN fan.ReadingPercent ELSE v0
        v2 == IF v1 = None /\ Get(fan.DutyCyclePercent) # None
              THEN fan.DutyCyclePercent ELSE v1
    IN  v2

\* the value _pwm_from_fan picks before the coercion (lines 262-269)
PwmReading(fan) ==
    LET v0 == IF Get(fan.ReadingUnits) \in {Percent, PercentSign}
                 /\ Get(fan.Reading) # None
              THEN fan.Reading ELSE None
        v1 == IF v0 = None /\ Get(fan.DutyCyclePercent) # None
              THEN fan.DutyCyclePercent ELSE v0
        v2 == IF v1 = None /\ Get(fan.ReadingPercent) # None
              THEN fan.ReadingPercent ELSE v1
    IN  v2

\* fan_obj.get("Oem", {}).get("Dell", {}).get("FanPWM"): a null Oem or Dell has
\* no get and raises AttributeError.
OemDellFanPWM(fan) ==
    LET oem == fan.Oem IN
    IF oem = Absent THEN Return(None)
    ELSE IF oem.k # "oem" THEN Raise("AttributeError")
    ELSE IF oem.Dell = Absent THEN Return(None)
    ELSE IF oem.Dell.k # "dell" THEN Raise("AttributeError")
    ELSE Return(Get(oem.Dell.FanPWM))

\* lines 271-272: the vendor field is read only when nothing was picked
PickedOrVendor(picked, fan) ==
    IF picked = None THEN OemDellFanPWM(fan) ELSE Return(picked)

\* lines 276-277: except (ValueError, TypeError): return None
Caught(r) == IF r.exc \in {"ValueError", "TypeError"} THEN Return(None) ELSE r

\* lines 274-275: float(value) if value is not None else None
Coerced(value) ==
    IF value.exc # "none" THEN value
    ELSE IF value.ret = None THEN Return(None)
    ELSE Caught(float(value.ret))

\* PerformanceCollector._pwm_from_fan
_pwm_from_fan(fan) ==
    IF IsEmptyFan(fan) THEN Return(None)
    ELSE Coerced(PickedOrVendor(PwmReading(fan), fan))

(***************************************************************************)
(* The remote board.  A resource is named by its URL; connect_server       *)
(* answers with the document the board holds for it, or raises.            *)
(***************************************************************************)
Url(slot, i) == [slot |-> slot, i |-> i]

Ok(doc) == [ok |-> TRUE, doc |-> doc]
Unavailable == [ok |-> FALSE, doc |-> None]

List(items) == [k |-> "list", items |-> items]

\* RedfishMetricsCollector.connect_server: the document at url, or a
\* transport/parse error
connect_server(w, url) ==
    CASE url.slot = "PowerSubsystem" -> w.PowerSubsystem
      [] url.slot = "PowerSupplies" -> w.PowerSupplies
      [] url.slot = "PowerSupply" -> w.Supply[url.i].detail
      [] url.slot = "PowerSupplyMetrics" -> w.Supply[url.i].metrics
      [] url.slot = "Power" -> w.Power
      [] url.slot = "ThermalSubsystem" -> w.ThermalSubsystem
      [] url.slot = "ThermalMetrics" -> w.ThermalMetrics
      [] url.slot = "Fans" -> w.Fans
      [] url.slot = "Fan" -> w.FanMember[url.i]
      [] url.slot = "Thermal" -> w.Thermal

(***************************************************************************)
(* The collector during a cycle: the gauge families, the log and the       *)
(* resources asked for.  An operation takes the collector and gives the    *)
(* collector after it, with the value returned or the exception raised.    *)
(***************************************************************************)
\* rpm_values and pwm_values are the two lists get_fan_metrics accumulates.
Collector(power, temp, rpm, pwm, lg, asked) ==
    [power_metrics |-> power, temperature_metrics |-> temp,
     fan_speed_metrics |-> rpm, fan_pwm_metrics |-> pwm,
     log |-> lg, fetched |-> asked, rpm_values |-> <<>>, pwm_values |-> <<>>]

Done(c, v) == [c |-> c, exc |-> "none", ret |-> v]
Failed(c, e) == [c |-> c, exc |-> e, ret |-> None]

\* r, or what K makes of it when r raised nothing: the statements after a call
Then(r, K(_)) == IF r.exc # "none" THEN r ELSE K(r)

Received(c, resp) ==
    IF resp.ok THEN Done(c, resp.doc) ELSE Failed(c, "FetchError")

\* self.col.connect_server(url), recording the request
Fetch(w, c, url) ==
    Received([c EXCEPT !.fetched = Append(@, url)], connect_server(w, url))

Sample(value, labels) == [value |-> value, labels |-> labels]

\* GaugeMetricFamily.add_sample on one of the four families
add_sample(c, family, value, labels) ==
    [c EXCEPT ![family] = Append(@, Sample(value, labels))]

\* logging.warning, logging.info, logging.exception
Logged(level, msg) == [level |-> level, msg |-> msg]
warning(c, msg) == [c EXCEPT !.log = Append(@, Logged("warning", msg))]
info(c, msg) == [c EXCEPT !.log = Append(@, Logged("info", msg))]

\* math.nan if value is None else value
NanIfNone(value) == IF value = None THEN NaN ELSE value

(***************************************************************************)
(* Power, modern schema.                                                   *)
(***************************************************************************)
SubsystemMetrics == <<"CapacityWatts", "Allocation">>
SupplyMetrics == <<"PowerInputWatts", "PowerOutputWatts", "PowerCapacityWatts">>
OldPowerMetrics ==
    <<"PowerOutputWatts", "EfficiencyPercent", "PowerInputWatts", "LineInputVoltage">>

\* lines 74-104: the samples of one of CapacityWatts, Allocation
SubsystemMetricSamples(power_subsystem, metric) ==
    LET v == power_subsystem[metric] IN
    IF v = Absent THEN <<>>
    ELSE IF v.k = "dict"
         THEN [i \in 1..Len(v.items) |->
                  Sample(NanIfNone(v.items[i].val), [type |-> v.items[i].key])]
    ELSE <<Sample(NanIfNone(v), [type |-> metric])>>

RECURSIVE SubsystemSamples(_, _)
SubsystemSamples(power_subsystem, metrics) ==
    IF metrics = <<>> THEN <<>>
    ELSE SubsystemMetricSamples(power_subsystem, Head(metrics))
            \o SubsystemSamples(power_subsystem, Tail(metrics))

\* lines 153-166: one sample per metric present in the Metrics resource;
\* power_supply_metrics[metric]['Reading'] raises on a metric that is no
\* object (TypeError) or has no Reading (KeyError)
RECURSIVE SupplyMetricsLoop(_, _, _, _)
SupplyMetricsLoop(c, power_supply_metrics, power_supply_labels, metrics) ==
    IF metrics = <<>> THEN Done(c, None)
    ELSE LET metric == Head(metrics)
             v == power_supply_metrics[metric]
             current_labels ==
                 [type |-> metric, Name |-> power_supply_labels.Name,
                  Manufacturer |-> power_supply_labels.Manufacturer,
                  Model |-> power_supply_labels.Model]
         IN  IF v = Absent
             THEN SupplyMetricsLoop(c, power_supply_metrics, power_supply_labels,
                                    Tail(metrics))
             ELSE IF v.k # "sensor" THEN Failed(c, "TypeError")
             ELSE IF v.Reading = Absent THEN Failed(c, "KeyError")
             ELSE SupplyMetricsLoop(
                      add_sample(c, "power_metrics", NanIfNone(v.Reading),
                                 current_labels),
                      power_supply_metrics, power_supply_labels, Tail(metrics))

\* lines 144-147
SupplyLabels(power_supply_data) ==
    [Name |-> GetDefault(power_supply_data.Name, Unknown),
     Manufacturer |-> GetDefault(power_supply_data.Manufacturer, Unknown),
     Model |-> GetDefault(power_supply_data.Model, Unknown)]

\* lines 134-168
SupplyFetched(w, c, power_supply_data) ==
    IF power_supply_data.Metrics = Absent
    THEN Done(warning(c, "No power supply metrics url found"), TRUE)
    ELSE Then(Fetch(w, c, power_supply_data.Metrics.id),
              LAMBDA g :
                  Then(SupplyMetricsLoop(g.c, g.ret,
                                         SupplyLabels(power_supply_data),
                                         SupplyMetrics),
                       LAMBDA l : Done(l.c, FALSE)))

\* PerformanceCollector.get_power_supply_metrics: returns no_psu_metrics
get_power_supply_metrics(w, c, power_supply) ==
    Then(Fetch(w, c, power_supply.id), LAMBDA f : SupplyFetched(w, f.c, f.ret))

\* lines 119-122: no_psu_metrics is what the call for the last member returned
RECURSIVE PowerSuppliesLoop(_, _, _, _)
PowerSuppliesLoop(w, c, power_supplies, no_psu_metrics) ==
    IF power_supplies = <<>> THEN Done(c, no_psu_metrics)
    ELSE Then(get_power_supply_metrics(w, c, Head(power_supplies)),
              LAMBDA r : PowerSuppliesLoop(w, r.c, Tail(power_supplies), r.ret))

RECURSIVE AddSamples(_, _, _)
AddSamples(c, family, samples) ==
    IF samples = <<>> THEN c
    ELSE AddSamples(add_sample(c, family, Head(samples).value, Head(samples).labels),
                    family, Tail(samples))

\* power_subsystem.get('PowerSupplies', {}).get('@odata.id'): a null
\* PowerSupplies has no get
PowerSuppliesUrl(power_subsystem) ==
    LET v == power_subsystem.PowerSupplies IN
    IF v = Absent THEN Return(None)
    ELSE IF v.k # "link" THEN Raise("AttributeError")
    ELSE Return(Get(v.id))

\* lines 108-122
SubsystemFetched(w, c, power_supplies_url) ==
    IF power_supplies_url.exc # "none" THEN Failed(c, power_supplies_url.exc)
    ELSE IF power_supplies_url.ret = None
    THEN Done(warning(c, "No power supplies url found"), TRUE)
    ELSE Then(Fetch(w, c, power_supplies_url.ret),
              LAMBDA g :
                  IF g.ret.Members = Absent THEN Failed(g.c, "KeyError")
                  ELSE PowerSuppliesLoop(w, g.c, g.ret.Members.items, TRUE))

\* PerformanceCollector.get_power_subsystem_metrics: returns no_psu_metrics
get_power_subsystem_metrics(w, u, c) ==
    Then(Fetch(w, c, u.PowerSubsystem),
         LAMBDA f :
             SubsystemFetched(
                 w,
                 AddSamples(f.c, "power_metrics",
                            SubsystemSamples(f.ret, SubsystemMetrics)),
                 PowerSuppliesUrl(f.ret)))

(***************************************************************************)
(* Power, deprecated schema.                                               *)
(***************************************************************************)
\* 'unknown' if psu.get(key, 'unknown') is None else psu.get(key, 'unknown')
UnknownIfNone(v) ==
    IF GetDefault(v, Unknown) = None THEN Unknown ELSE GetDefault(v, Unknown)

\* lines 200-221: the samples of one entry of PowerSupplies
RECURSIVE PsuSamples(_, _)
PsuSamples(psu, metrics) ==
    IF metrics = <<>> THEN <<>>
    ELSE LET metric == Head(metrics)
             current_labels == [device_name |-> UnknownIfNone(psu.Name),
                                device_model |-> UnknownIfNone(psu.Model),
                                type |-> metric]
         IN  IF psu[metric] = Absent THEN PsuSamples(psu, Tail(metrics))
             ELSE <<Sample(NanIfNone(psu[metric]), current_labels)>>
                      \o PsuSamples(psu, Tail(metrics))

\* lines 188-221: no_psu_metrics turns False at the first metric found
RECURSIVE OldPowerLoop(_, _, _)
OldPowerLoop(c, psus, no_psu_metrics) ==
    IF psus = <<>> THEN Done(c, no_psu_metrics)
    ELSE OldPowerLoop(
             AddSamples(c, "power_metrics", PsuSamples(Head(psus), OldPowerMetrics)),
             Tail(psus),
             no_psu_metrics /\ PsuSamples(Head(psus), OldPowerMetrics) = <<>>)

OldPowerDoc(id, psus) == [odata_id |-> id, PowerSupplies |-> psus]
EmptyDoc == OldPowerDoc(Absent, Absent)

\* PerformanceCollector.get_old_power_metrics: returns no_psu_metrics
get_old_power_metrics(w, u, c) ==
    Then(Fetch(w, c, u.Power),
         LAMBDA f :
             IF f.ret = EmptyDoc THEN Done(f.c, TRUE)
             ELSE IF f.ret.PowerSupplies = Absent THEN Failed(f.c, "KeyError")
             ELSE OldPowerLoop(f.c, f.ret.PowerSupplies.items, TRUE))

\* line 54: the deprecated resource is asked for
FallbackToPower(u, no_psu_metrics) == u.Power # None /\ no_psu_metrics

\* lines 57-63: the warning of get_power_metrics
WarnNoPower(c, no_psu_metrics) ==
    IF no_psu_metrics THEN Done(warning(c, "No power url found"), None)
    ELSE Done(c, None)

\* PerformanceCollector.get_power_metrics
get_power_metrics(w, u, c) ==
    Then(IF u.PowerSubsystem # None
         THEN get_power_subsystem_metrics(w, u, info(c, "Get the PDU Power data."))
         ELSE Done(info(c, "Get the PDU Power data."), TRUE),
         LAMBDA modern :
             Then(IF FallbackToPower(u, modern.ret)
                  THEN get_old_power_metrics(w, u, modern.c)
                  ELSE Done(modern.c, None),
                  LAMBDA old : WarnNoPower(old.c, modern.ret)))

(***************************************************************************)
(* Temperature.                                                            *)
(***************************************************************************)
\* lines 235-245: thermal_metrics[metric]['Reading'] raises on an entry that
\* is no object (TypeError) or has no Reading (KeyError)
RECURSIVE TempLoop(_, _)
TempLoop(c, items) ==
    IF items = <<>> THEN Done(c, None)
    ELSE LET v == Head(items).val IN
         IF v.k # "sensor" THEN Failed(c, "TypeError")
         ELSE IF v.Reading = Absent THEN Failed(c, "KeyError")
         ELSE TempLoop(add_sample(c, "temperature_metrics", NanIfNone(v.Reading),
                                  [type |-> Head(items).key]),
                       Tail(items))

\* thermal_subsystem['ThermalMetrics']['@odata.id']
ThermalMetricsUrl(thermal_subsystem) ==
    LET v == thermal_subsystem.ThermalMetrics IN
    IF v = Absent THEN Raise("KeyError")
    ELSE IF v.k # "link" THEN Raise("TypeError")
    ELSE IF v.id = Absent THEN Raise("KeyError")
    ELSE Return(v.id)

\* lines 233-245
TemperatureSummary(c, thermal_metrics) ==
    IF thermal_metrics.k # "dict" THEN Failed(c, "TypeError")
    ELSE TempLoop(c, thermal_metrics.items)

\* lines 231-245
ThermalSubsystemFetched(w, c, thermal_metrics_url) ==
    IF thermal_metrics_url.exc # "none" THEN Failed(c, thermal_metrics_url.exc)
    ELSE Then(Fetch(w, c, thermal_metrics_url.ret),
              LAMBDA g :
                  TemperatureSummary(
                      g.c, GetDefault(g.ret.TemperatureSummaryCelsius, Dict(<<>>))))

\* PerformanceCollector.get_temp_metrics
get_temp_metrics(w, u, c) ==
    IF u.ThermalSubsystem = None THEN Done(info(c, "Get the Thermal data."), None)
    ELSE Then(Fetch(w, info(c, "Get the Thermal data."), u.ThermalSubsystem),
              LAMBDA f : ThermalSubsystemFetched(w, f.c, ThermalMetricsUrl(f.ret)))

(***************************************************************************)
(* Fans.                                                                   *)
(***************************************************************************)
\* lines 293-294 and 301-302
AppendRpm(c, rpm) ==
    IF rpm # None THEN [c EXCEPT !.rpm_values = Append(@, rpm)] ELSE c

\* lines 295-296 and 303-304
AppendPwm(c, pwm) ==
    IF pwm.exc # "none" THEN Failed(c, pwm.exc)
    ELSE IF pwm.ret # None
         THEN Done([c EXCEPT !.pwm_values = Append(@, pwm.ret)], None)
    ELSE Done(c, None)

\* lines 293-296 and 301-304: one fan's readings appended to the two lists
ExtractFan(c, fan) == AppendPwm(AppendRpm(c, _rpm_from_fan(fan)), _pwm_from_fan(fan))

\* lines 291-296: every member of the Fans collection is fetched and read
RECURSIVE FanMembersLoop(_, _, _)
FanMembersLoop(w, c, members) ==
    IF members = <<>> THEN Done(c, None)
    ELSE Then(Fetch(w, c, Head(members).id),
              LAMBDA f :
                  Then(ExtractFan(f.c, f.ret),
                       LAMBDA e : FanMembersLoop(w, e.c, Tail(members))))

\* lines 300-304: the inline Fans array of the deprecated Thermal resource
RECURSIVE InlineFansLoop(_, _)
InlineFansLoop(c, fans) ==
    IF fans = <<>> THEN Done(c, None)
    ELSE Then(ExtractFan(c, Head(fans)),
              LAMBDA e : InlineFansLoop(e.c, Tail(fans)))

\* ts_data.get("Fans", {}).get("@odata.id")
FansUrl(ts_data) ==
    LET v == ts_data.Fans IN
    IF v = Absent THEN Return(None)
    ELSE IF v.k # "link" THEN Raise("AttributeError")
    ELSE Return(Get(v.id))

\* lines 289-296
FansFetched(w, c, fans_url) ==
    IF fans_url.exc # "none" THEN Failed(c, fans_url.exc)
    ELSE IF fans_url.ret = None THEN Done(c, None)
    ELSE Then(Fetch(w, c, fans_url.ret),
              LAMBDA g :
                  FanMembersLoop(w, g.c,
                                 GetDefault(g.ret.Members, List(<<>>)).items))

\* lines 286-296: the ThermalSubsystem pass of get_fan_metrics
FanModernPass(w, u, c) ==
    IF u.ThermalSubsystem = None THEN Done(c, None)
    ELSE Then(Fetch(w, c, u.ThermalSubsystem),
              LAMBDA f : FansFetched(w, f.c, FansUrl(f.ret)))

\* FallbackToThermal gated on both lists being empty
FallbackToThermalWhenNothingFound(u, c) ==
    c.rpm_values = <<>> /\ c.pwm_values = <<>> /\ u.Thermal # None

\* FallbackToThermal whenever a Thermal locator is present
FallbackToThermalAlways(u, c) == u.Thermal # None

\* line 298: not rpm_values and self.col.urls.get("Thermal")
FallbackToThermal(u, c) == c.rpm_values = <<>> /\ u.Thermal # None

\* FanFallbackPass starting the PWM list afresh
FanFallbackPassDiscardingPwm(w, u, c) ==
    IF ~(c.rpm_values = <<>> /\ u.Thermal # None) THEN Done(c, None)
    ELSE Then(Fetch(w, [c EXCEPT !.pwm_values = <<>>], u.Thermal),
              LAMBDA f :
                  InlineFansLoop(f.c, GetDefault(f.ret.Fans, List(<<>>)).items))

\* lines 298-304: the deprecated Thermal pass of get_fan_metrics
FanFallbackPass(w, u, c) ==
    IF ~FallbackToThermal(u, c) THEN Done(c, None)
    ELSE Then(Fetch(w, c, u.Thermal),
              LAMBDA f :
                  InlineFansLoop(f.c, GetDefault(f.ret.Fans, List(<<>>)).items))

\* A number as sum() takes it; a float of this model has denominator 1.
IsNumber(v) == v.k \in {"num", "float"}
NumberOf(v) == IF v.k = "num" THEN v.v ELSE v.num

RECURSIVE sum(_)
sum(values) ==
    IF values = <<>> THEN 0 ELSE NumberOf(Head(values)) + sum(Tail(values))

\* Average with floor division
AverageFloorDivision(values) == Float(sum(values) \div Len(values), 1)

\* sum(values) / len(values)
Average(values) == Float(sum(values), Len(values))

\* lines 309-320 and 322-333: the average of one list as the gauge's only
\* sample, or a warning; sum() raises TypeError on a value that is no number
EmitAverage(c, values, family, msg) ==
    IF values # <<>>
    THEN IF \A i \in 1..Len(values) : IsNumber(values[i])
         THEN Done(add_sample(c, family, Average(values), [type |-> "average"]),
                   None)
         ELSE Failed(c, "TypeError")
    ELSE Done(warning(c, msg), None)

\* lines 283-284: the two lists start empty
NoValues(c) == [c EXCEPT !.rpm_values = <<>>, !.pwm_values = <<>>]

\* PerformanceCollector.get_fan_metrics
get_fan_metrics(w, u, c) ==
    Then(FanModernPass(w, u, info(NoValues(c), "Gathering fan data")),
         LAMBDA modern :
             Then(FanFallbackPass(w, u, modern.c),
                  LAMBDA old :
                      Then(EmitAverage(old.c, old.c.rpm_values, "fan_speed_metrics",
                                       "No fan RPM data found"),
                           LAMBDA r :
                               EmitAverage(r.c, r.c.pwm_values, "fan_pwm_metrics",
                                           "No fan PWM data found"))))

(***************************************************************************)
(* The documents a board may answer with.  Lists are bounded by            *)
(* MaxMembers, MaxPsus and MaxFans; long lists draw their elements from a  *)
(* few shapes, and every shape is also tried alone.                        *)
(***************************************************************************)
\* all sequences over S of length at most n
SeqsUpTo(S, n) == UNION {[1..m -> S] : m \in 0..n}
Singles(S) == {<<x>> : x \in S}

Item(key, val) == [key |-> key, val |-> val]
PsuName == Str(<<"P", "S", "U">>)

\* -- PowerSubsystem
SubsystemDoc(cap, alloc, supplies) ==
    [CapacityWatts |-> cap, Allocation |-> alloc, PowerSupplies |-> supplies]
AllocationDict ==
    Dict(<<Item("RequestedWatts", Num(800)), Item("AllocatedWatts", Null)>>)
PowerSuppliesLink == Link(Url("PowerSupplies", 0))
DefaultSubsystem == Ok(SubsystemDoc(Num(1000), Absent, PowerSuppliesLink))
SubsystemDocs ==
    {Unavailable} \cup
    {Ok(SubsystemDoc(cap, alloc, supplies)) :
        cap \in {Absent, Null, Num(1000)},
        alloc \in {Absent, Null, Num(900), AllocationDict},
        supplies \in {Absent, Null, Link(Absent), PowerSuppliesLink}}

\* -- one power supply: its detail resource and its Metrics resource
MetricsDoc(in, out, cap) ==
    [PowerInputWatts |-> in, PowerOutputWatts |-> out, PowerCapacityWatts |-> cap]
SupplyKind(detail, metrics) == [detail |-> detail, metrics |-> metrics]
FullMetrics == MetricsDoc(Sensor(Num(100)), Sensor(Null), Sensor(Num(750)))
MetricsDocs ==
    {MetricsDoc(in, out, cap) :
        in \in {Absent, Sensor(Null), Sensor(Num(100))},
        out \in {Absent, Sensor(Null), Sensor(Num(90))},
        cap \in {Absent, Sensor(Null), Sensor(Num(750))}}
    \cup {MetricsDoc(Null, Absent, Sensor(Num(750))),
          MetricsDoc(Sensor(Num(100)), Null, Absent),
          MetricsDoc(Sensor(Num(100)), Sensor(Absent), Sensor(Num(750))),
          MetricsDoc(Num(100), Absent, Absent)}
NoMetricsSupply == SupplyKind("nometrics", Unavailable)
FullSupply == SupplyKind("metrics", Ok(FullMetrics))
SupplyKinds ==
    {SupplyKind("unavailable", Unavailable), NoMetricsSupply,
     SupplyKind("metrics", Unavailable)}
    \cup {SupplyKind("metrics", Ok(d)) : d \in MetricsDocs}
CoreSupplyKinds ==
    {NoMetricsSupply, FullSupply,
     SupplyKind("metrics", Ok(MetricsDoc(Absent, Absent, Absent))),
     SupplyKind("metrics", Ok(MetricsDoc(Null, Absent, Absent)))}
SupplyLists == Singles(SupplyKinds) \cup SeqsUpTo(CoreSupplyKinds, MaxMembers)
SmallSupplyLists ==
    {<<>>, <<NoMetricsSupply>>, <<FullSupply>>} \cup
    (IF MaxMembers >= 2
     THEN {<<FullSupply, NoMetricsSupply>>, <<NoMetricsSupply, FullSupply>>}
     ELSE {})

SupplyDoc(metrics) ==
    [Name |-> PsuName, Manufacturer |-> Absent, Model |-> Null,
     Metrics |-> metrics]
SupplyResource(kind, i) ==
    [detail |-> CASE kind.detail = "unavailable" -> Unavailable
                  [] kind.detail = "nometrics" -> Ok(SupplyDoc(Absent))
                  [] kind.detail = "metrics" ->
                        Ok(SupplyDoc(Link(Url("PowerSupplyMetrics", i)))),
     metrics |-> kind.metrics]
MembersDoc(slot, n) == [Members |-> List([i \in 1..n |-> Link(Url(slot, i))])]
NoMembersDoc == [Members |-> Absent]

\* -- deprecated Power
Psu(name, model, out, eff, in, volt) ==
    [Name |-> name, Model |-> model, PowerOutputWatts |-> out,
     EfficiencyPercent |-> eff, PowerInputWatts |-> in, LineInputVoltage |-> volt]
BarePsu == Psu(Absent, Absent, Absent, Absent, Absent, Absent)
OnePsu == Psu(PsuName, Null, Num(450), Absent, Absent, Absent)
FullPsu == Psu(PsuName, PsuName, Num(450), Null, Num(500), Num(230))
PsuKinds ==
    {Psu(PsuName, PsuName, out, eff, in, volt) :
        out \in {Absent, Null, Num(450)}, eff \in {Absent, Null, Num(94)},
        in \in {Absent, Null, Num(500)}, volt \in {Absent, Null, Num(230)}}
    \cup {Psu(name, model, Num(450), Absent, Absent, Absent) :
             name \in {Absent, Null, PsuName}, model \in {Absent, Null, PsuName}}
CorePsuKinds == {BarePsu, OnePsu, FullPsu}
PowerId == Str(<<"P", "o", "w", "e", "r">>)
OldPowerDocs ==
    {Unavailable, Ok(EmptyDoc), Ok(OldPowerDoc(PowerId, Absent))}
    \cup {Ok(OldPowerDoc(PowerId, List(psus))) :
             psus \in Singles(PsuKinds) \cup SeqsUpTo(CorePsuKinds, MaxPsus)}
SmallOldPowerDocs ==
    {Unavailable, Ok(EmptyDoc), Ok(OldPowerDoc(PowerId, List(<<BarePsu>>))),
     Ok(OldPowerDoc(PowerId, List(<<OnePsu>>)))}

\* -- ThermalSubsystem and its ThermalMetrics
ThermalSubsystemDoc(metrics, fans) == [ThermalMetrics |-> metrics, Fans |-> fans]
ThermalMetricsLink == Link(Url("ThermalMetrics", 0))
FansLink == Link(Url("Fans", 0))
DefaultThermalSubsystem == Ok(ThermalSubsystemDoc(ThermalMetricsLink, FansLink))
ThermalSubsystemDocs ==
    {Unavailable} \cup
    {Ok(ThermalSubsystemDoc(metrics, fans)) :
        metrics \in {Absent, Null, Link(Absent), ThermalMetricsLink},
        fans \in {Absent, Null, Link(Absent), FansLink}}
SmallThermalSubsystemDocs ==
    {Unavailable, DefaultThermalSubsystem,
     Ok(ThermalSubsystemDoc(Absent, FansLink)),
     Ok(ThermalSubsystemDoc(ThermalMetricsLink, Absent))}

ThermalMetricsDoc(summary) == [TemperatureSummaryCelsius |-> summary]
DefaultThermalMetrics ==
    Ok(ThermalMetricsDoc(Dict(<<Item("CPU", Sensor(Num(45))),
                                Item("Ambient", Sensor(Num(22)))>>)))
ThermalMetricsDocs ==
    {Unavailable, DefaultThermalMetrics, Ok(ThermalMetricsDoc(Absent)),
     Ok(ThermalMetricsDoc(Null)),
     Ok(ThermalMetricsDoc(Dict(<<Item("CPU", Sensor(Null))>>))),
     Ok(ThermalMetricsDoc(Dict(<<Item("CPU", Null)>>))),
     Ok(ThermalMetricsDoc(Dict(<<Item("CPU", Sensor(Num(45))),
                                 Item("Ambient", Sensor(Absent))>>)))}
SmallThermalMetricsDocs ==
    {Unavailable, DefaultThermalMetrics, Ok(ThermalMetricsDoc(Absent))}

\* -- fans: the members of the modern Fans collection
Rpm1000 == Fan(RPM, Num(1000), Absent, Absent, Absent, Absent)
Rpm2000 == Fan(Absent, Absent, Num(2000), Absent, Absent, Absent)
Rpm3000 == Fan(RPM, Num(3000), Num(9), Absent, Absent, Absent)
Rpm1200Pwm60 == Fan(RPM, Num(1200), Absent, Num(60), Absent, Absent)
Pwm40 == Fan(Percent, Num(40), Absent, Absent, Absent, Absent)
Pwm42Text == Fan(Absent, Absent, Absent, Absent, Absent, Oem(Dell(Str(<<"4", "2">>))))
PwmNoNumber == Fan(Absent, Absent, Absent, Absent, Absent, Oem(Dell(Str(<<"x">>))))
RpmText == Fan(Absent, Absent, Str(<<"9", "0", "0">>), Absent, Absent, Absent)
OemNull == Fan(Absent, Absent, Num(1200), Absent, Absent, Null)
CoreFanKinds == {Ok(Rpm1000), Ok(Rpm2000), Ok(Rpm3000), Ok(Pwm40)}
FanKinds ==
    CoreFanKinds \cup
    {Unavailable, Ok(EmptyFan), Ok(Rpm1200Pwm60), Ok(Pwm42Text),
     Ok(PwmNoNumber), Ok(RpmText), Ok(OemNull)}
FanMemberLists == Singles(FanKinds) \cup SeqsUpTo(CoreFanKinds, MaxFans)
SmallFanMemberLists ==
    {<<>>, <<Ok(Pwm40)>>, <<Ok(Rpm1000)>>, <<Ok(EmptyFan), Ok(Pwm42Text)>>}

\* -- fans: the inline Fans array of the deprecated Thermal resource
Rpm1500 == Fan(Absent, Absent, Num(1500), Absent, Absent, Absent)
Rpm2500Pwm20 == Fan(RPM, Num(2500), Absent, Absent, Num(20), Absent)
Pwm80 == Fan(Absent, Absent, Absent, Num(80), Absent, Absent)
CoreInlineFans == {EmptyFan, Rpm1500, Rpm2500Pwm20, Pwm80}
InlineFans == CoreInlineFans \cup {Pwm42Text, RpmText, OemNull}
ThermalDoc(fans) == [Fans |-> fans]
ThermalDocs ==
    {Unavailable, Ok(ThermalDoc(Absent))}
    \cup {Ok(ThermalDoc(List(fans))) :
             fans \in Singles(InlineFans) \cup SeqsUpTo(CoreInlineFans, MaxFans)}
SmallThermalDocs ==
    {Unavailable, Ok(ThermalDoc(Absent)), Ok(ThermalDoc(List(<<Rpm1500>>))),
     Ok(ThermalDoc(List(<<Pwm80>>))), Ok(ThermalDoc(List(<<Rpm2500Pwm20, Pwm80>>)))}

(***************************************************************************)
(* A board: the resource behind every URL.  members and fans are the       *)
(* answers for the two collections: Unavailable, a document without        *)
(* Members, or the list of the members' own resources.                     *)
(***************************************************************************)
Collection(slot, members) ==
    IF members.k = "list" THEN Ok(MembersDoc(slot, Len(members.items)))
    ELSE IF members.k = "nokey" THEN Ok(NoMembersDoc)
    ELSE Unavailable
Resources(members) == IF members.k = "list" THEN members.items ELSE <<>>
NoKey == [k |-> "nokey"]
Down == [k |-> "down"]

Board(subsystem, supplies, power, thermal_subsystem, thermal_metrics, fans, thermal) ==
    [PowerSubsystem |-> subsystem,
     PowerSupplies |-> Collection("PowerSupply", supplies),
     Supply |-> [i \in 1..Len(Resources(supplies)) |->
                    SupplyResource(Resources(supplies)[i], i)],
     Power |-> power,
     ThermalSubsystem |-> thermal_subsystem,
     ThermalMetrics |-> thermal_metrics,
     Fans |-> Collection("Fan", fans),
     FanMember |-> Resources(fans),
     Thermal |-> thermal]

DefaultSupplies == List(<<FullSupply>>)
DefaultPower == Ok(OldPowerDoc(PowerId, List(<<OnePsu>>)))
DefaultFans == List(<<Ok(Rpm1000)>>)
DefaultThermal == Ok(ThermalDoc(List(<<Rpm1500>>)))

\* boards that vary the power resources
PowerBoards ==
    {Board(subsystem, supplies, DefaultPower, DefaultThermalSubsystem,
           DefaultThermalMetrics, DefaultFans, DefaultThermal) :
        subsystem \in SubsystemDocs, supplies \in {Down, NoKey, DefaultSupplies}}
    \cup
    {Board(DefaultSubsystem, List(supplies), power, DefaultThermalSubsystem,
           DefaultThermalMetrics, DefaultFans, DefaultThermal) :
        supplies \in SupplyLists, power \in SmallOldPowerDocs}
    \cup
    {Board(DefaultSubsystem, List(supplies), power, DefaultThermalSubsystem,
           DefaultThermalMetrics, DefaultFans, DefaultThermal) :
        supplies \in SmallSupplyLists, power \in OldPowerDocs}

\* boards that vary the thermal and fan resources
FanBoards ==
    {Board(DefaultSubsystem, DefaultSupplies, DefaultPower, thermal_subsystem,
           DefaultThermalMetrics, fans, thermal) :
        thermal_subsystem \in ThermalSubsystemDocs,
        fans \in {Down, NoKey, DefaultFans, List(<<Ok(Pwm40)>>)},
        thermal \in SmallThermalDocs}
    \cup
    {Board(DefaultSubsystem, DefaultSupplies, DefaultPower,
           DefaultThermalSubsystem, DefaultThermalMetrics, List(fans), thermal) :
        fans \in FanMemberLists, thermal \in SmallThermalDocs}
    \cup
    {Board(DefaultSubsystem, DefaultSupplies, DefaultPower,
           DefaultThermalSubsystem, DefaultThermalMetrics, List(fans), thermal) :
        fans \in SmallFanMemberLists, thermal \in ThermalDocs}

\* boards that vary every family at once, each over a few documents
CycleBoards ==
    {Board(subsystem, List(supplies), power, thermal_subsystem, thermal_metrics,
           List(fans), thermal) :
        subsystem \in {Unavailable, DefaultSubsystem},
        supplies \in {<<NoMetricsSupply>>, <<FullSupply>>},
        power \in {Unavailable, DefaultPower},
        thermal_subsystem \in SmallThermalSubsystemDocs,
        thermal_metrics \in ThermalMetricsDocs,
        fans \in {<<Ok(Pwm40)>>, <<Ok(Rpm1000)>>, <<Unavailable>>},
        thermal \in {Unavailable, DefaultThermal}}

\* the locators: a URL, or None for a schema the target does not advertise
Locators(S) ==
    {[PowerSubsystem |-> IF "PowerSubsystem" \in T
                         THEN Url("PowerSubsystem", 0) ELSE None,
      Power |-> IF "Power" \in T THEN Url("Power", 0) ELSE None,
      ThermalSubsystem |-> IF "ThermalSubsystem" \in T
                           THEN Url("ThermalSubsystem", 0) ELSE None,
      Thermal |-> IF "Thermal" \in T THEN Url("Thermal", 0) ELSE None] :
        T \in SUBSET S}

(***************************************************************************)
(* The cycle.  pc is the position of the scrape: "power", "temp" and "fan" *)
(* are the three calls of collect(), "returned" and "raised" its two       *)
(* outcomes, "exited" and "propagated" the same after __exit__, and        *)
(* "HTTP_200" and "HTTPBadRequest" the answers of on_get.                  *)
(***************************************************************************)
Current ==
    [power_metrics |-> power_metrics, temperature_metrics |-> temperature_metrics,
     fan_speed_metrics |-> fan_speed_metrics, fan_pwm_metrics |-> fan_pwm_metrics,
     log |-> log, fetched |-> fetched, rpm_values |-> rpm_values,
     pwm_values |-> pwm_values]

\* the collector after a call of collect(), and where the call leaves the cycle
Becomes(r, next) ==
    /\ power_metrics' = r.c.power_metrics
    /\ temperature_metrics' = r.c.temperature_metrics
    /\ fan_speed_metrics' = r.c.fan_speed_metrics
    /\ fan_pwm_metrics' = r.c.fan_pwm_metrics
    /\ log' = r.c.log
    /\ fetched' = r.c.fetched
    /\ rpm_values' = r.c.rpm_values
    /\ pwm_values' = r.c.pwm_values
    /\ exc' = r.exc
    /\ pc' = IF r.exc = "none" THEN next ELSE "raised"
    /\ UNCHANGED <<urls, world, fan_obj, ret>>

\* PerformanceCollector.__init__: empty families
Constructed(boards, slots) ==
    /\ urls \in Locators(slots)
    /\ world \in boards
    /\ pc = "power"
    /\ exc = "none"
    /\ power_metrics = <<>>
    /\ temperature_metrics = <<>>
    /\ fan_speed_metrics = <<>>
    /\ fan_pwm_metrics = <<>>
    /\ log = <<>>
    /\ fetched = <<>>
    /\ rpm_values = <<>>
    /\ pwm_values = <<>>
    /\ fan_obj = EmptyFan
    /\ ret = Return(None)

Slots == {"PowerSubsystem", "Power", "ThermalSubsystem", "Thermal"}

Init == Constructed(CycleBoards, Slots)
PowerInit == Constructed(PowerBoards, {"PowerSubsystem", "Power"})
FanInit == Constructed(FanBoards, {"ThermalSubsystem", "Thermal"})

\* collect(), line 339
GetPowerMetrics ==
    /\ pc = "power"
    /\ Becomes(get_power_metrics(world, urls, Current), "temp")

\* collect(), line 340
GetTempMetrics ==
    /\ pc = "temp"
    /\ Becomes(get_temp_metrics(world, urls, Current), "fan")

\* collect(), line 341
GetFanMetrics ==
    /\ pc = "fan"
    /\ Becomes(get_fan_metrics(world, urls, Current), "returned")

\* PerformanceCollector.__exit__: logs the exception and does not swallow it
Exit ==
    /\ pc \in {"returned", "raised"}
    /\ pc' = IF pc = "raised" THEN "propagated" ELSE "exited"
    /\ log' = IF pc = "raised"
              THEN Append(log, Logged("error", "An exception occured"))
              ELSE log
    /\ UNCHANGED <<urls, world, exc, power_metrics, temperature_metrics,
                   fan_speed_metrics, fan_pwm_metrics, fetched, rpm_values,
                   pwm_values, fan_obj, ret>>

\* MetricsHandler.on_get, lines 84-92
OnGet ==
    /\ pc \in {"exited", "propagated"}
    /\ pc' = IF pc = "propagated" THEN "HTTPBadRequest" ELSE "HTTP_200"
    /\ UNCHANGED <<urls, world, exc, power_metrics, temperature_metrics,
                   fan_speed_metrics, fan_pwm_metrics, log, fetched, rpm_values,
                   pwm_values, fan_obj, ret>>

Next == GetPowerMetrics \/ GetTempMetrics \/ GetFanMetrics \/ Exit \/ OnGet

Spec == Init /\ [][Next]_vars
SpecPower == PowerInit /\ [][Next]_vars
SpecFan == FanInit /\ [][Next]_vars

(***************************************************************************)
(* The two per-fan extractions called on their own, over every fan object  *)
(* built from the fields they read.                                        *)
(***************************************************************************)
FieldValues == {Absent, Null, Num(0), Num(42), Str(<<"4", "2">>), Str(<<"x">>)}
UnitValues == {Absent, Null, RPM, Percent, PercentSign}
OemValues == {Absent, Oem(Absent)} \cup {Oem(Dell(v)) : v \in FieldValues}
FanObjects ==
    {Fan(units, reading, rpm, duty, pct, oem) :
        units \in UnitValues, reading \in FieldValues,
        rpm \in {Absent, Null, Num(1500)}, duty \in FieldValues,
        pct \in FieldValues, oem \in OemValues}

Pending == [exc |-> "pending", ret |-> None]

FanInitObject ==
    /\ fan_obj \in FanObjects
    /\ ret = Pending
    /\ pc = "call"
    /\ urls \in Locators({})
    /\ world = Board(DefaultSubsystem, DefaultSupplies, DefaultPower,
                     DefaultThermalSubsystem, DefaultThermalMetrics, DefaultFans,
                     DefaultThermal)
    /\ exc = "none"
    /\ power_metrics = <<>>
    /\ temperature_metrics = <<>>
    /\ fan_speed_metrics = <<>>
    /\ fan_pwm_metrics = <<>>
    /\ log = <<>>
    /\ fetched = <<>>
    /\ rpm_values = <<>>
    /\ pwm_values = <<>>

CallPwmFromFan ==
    /\ pc = "call"
    /\ ret' = _pwm_from_fan(fan_obj)
    /\ pc' = "_pwm_from_fan"
    /\ UNCHANGED <<urls, world, exc, power_metrics, temperature_metrics,
                   fan_speed_metrics, fan_pwm_metrics, log, fetched, rpm_values,
                   pwm_values, fan_obj>>

CallRpmFromFan ==
    /\ pc = "call"
    /\ ret' = Return(_rpm_from_fan(fan_obj))
    /\ pc' = "_rpm_from_fan"
    /\ UNCHANGED <<urls, world, exc, power_metrics, temperature_metrics,
                   fan_speed_metrics, fan_pwm_metrics, log, fetched, rpm_values,
                   pwm_values, fan_obj>>

NextFan == CallPwmFromFan \/ CallRpmFromFan

SpecPwm == FanInitObject /\ [][NextFan]_vars

(***************************************************************************)
(* What the claims speak of.                                               *)
(***************************************************************************)
Asked(slot) == \E i \in DOMAIN fetched : fetched[i].slot = slot
Warnings(msg) ==
    Cardinality({i \in DOMAIN log : log[i] = Logged("warning", msg)})
Started(msg) == \E i \in DOMAIN log : log[i] = Logged("info", msg)

\* per-supply samples of the modern schema carry the supply's Name, those of
\* the deprecated schema its device_name
ModernSupplySamples ==
    {i \in DOMAIN power_metrics : "Name" \in DOMAIN power_metrics[i].labels}
DeprecatedSamples ==
    {i \in DOMAIN power_metrics : "device_name" \in DOMAIN power_metrics[i].labels}

EmptyCollector == Collector(<<>>, <<>>, <<>>, <<>>, <<>>, <<>>)
\* the ThermalSubsystem pass of the fan step on this board, taken alone
ModernPass == FanModernPass(world, urls, EmptyCollector)
\* the PWM values of the deprecated resource's inline Fans array, taken alone
DeprecatedPwm ==
    IF world.Thermal.ok /\ world.Thermal.doc.Fans # Absent
    THEN InlineFansLoop(EmptyCollector, world.Thermal.doc.Fans.items).c.pwm_values
    ELSE <<>>

FanReturned == Started("Gathering fan data") /\ pc \in {"returned", "exited", "HTTP_200"}

RECURSIVE Total(_)
Total(values) ==
    IF values = <<>> THEN 0
    ELSE (IF Head(values).k = "num" THEN Head(values).v
          ELSE Head(values).num \div Head(values).den)
         + Total(Tail(values))

\* the sample's value is the arithmetic mean of values
IsMeanOf(sample, values) ==
    /\ sample.value.k = "float"
    /\ sample.value.den > 0
    /\ sample.value.num * Len(values) = Total(values) * sample.value.den

\* gauge holds the mean of values as its only sample, or nothing when there are none
HoldsMeanOf(gauge, values) ==
    IF values = <<>> THEN gauge = <<>>
    ELSE /\ Len(gauge) = 1
         /\ gauge[1].labels = [type |-> "average"]
         /\ IsMeanOf(gauge[1], values)

(***************************************************************************)
(* C1.  When get_power_metrics has returned, the deprecated Power resource *)
(* was fetched exactly when the modern pass added no per-supply sample and *)
(* a Power locator is present, and redfish_power never holds samples of    *)
(* both schemas.                                                           *)
(***************************************************************************)
C1_DeprecatedPowerIsFallbackOnly ==
    pc = "temp" =>
        /\ Asked("Power") <=> (ModernSupplySamples = {} /\ urls.Power # None)
        /\ ~(ModernSupplySamples # {} /\ DeprecatedSamples # {})

(***************************************************************************)
(* C2.  Every cycle starts get_temp_metrics and get_fan_metrics, whatever  *)
(* became of the steps before them.                                        *)
(***************************************************************************)
C2_ThermalAndFanAlwaysRun ==
    pc \notin {"power", "temp", "fan"} =>
        Started("Get the Thermal data.") /\ Started("Gathering fan data")

(***************************************************************************)
(* C3.  collect() never ends by raising: no exception reaches its caller.  *)
(***************************************************************************)
C3_CollectReturnsNormally == pc # "raised" /\ exc = "none"

(***************************************************************************)
(* C4.  When get_power_metrics has returned, "No power url found" was      *)
(* logged once if redfish_power holds no power supply sample of either     *)
(* schema, and not at all if it holds one.                                 *)
(***************************************************************************)
C4_WarnsExactlyWhenNoSupplySamples ==
    pc = "temp" =>
        Warnings("No power url found") =
            IF ModernSupplySamples = {} /\ DeprecatedSamples = {} THEN 1 ELSE 0

(***************************************************************************)
(* C5.  When get_fan_metrics has returned, each fan gauge holds the mean   *)
(* of its list as its only sample, labelled type="average", and logged no  *)
(* warning; or its list is empty, it holds no sample and logged exactly    *)
(* one warning.                                                            *)
(***************************************************************************)
C5_FanGaugesHoldTheMean ==
    FanReturned =>
        /\ HoldsMeanOf(fan_speed_metrics, rpm_values)
        /\ Warnings("No fan RPM data found") = IF rpm_values = <<>> THEN 1 ELSE 0
        /\ HoldsMeanOf(fan_pwm_metrics, pwm_values)
        /\ Warnings("No fan PWM data found") = IF pwm_values = <<>> THEN 1 ELSE 0

\* RPM readings 1000, 2000, 3000 average to 2000; no PWM reading: no sample, one warning
C5_Witness ==
    /\ FanReturned
    /\ rpm_values = <<Num(1000), Num(2000), Num(3000)>>
    /\ Len(fan_speed_metrics) = 1
    /\ fan_speed_metrics[1].value.num = 2000 * fan_speed_metrics[1].value.den
    /\ pwm_values = <<>>
    /\ fan_pwm_metrics = <<>>
    /\ Warnings("No fan PWM data found") = 1

(***************************************************************************)
(* C6.  get_fan_metrics fetches the deprecated Thermal resource exactly    *)
(* when its ThermalSubsystem pass ended with an empty RPM list and a       *)
(* Thermal locator is present, whatever PWM values that pass found.        *)
(***************************************************************************)
C6_ThermalFallbackIsGatedOnRpmOnly ==
    Asked("Thermal") <=>
        /\ Started("Gathering fan data")
        /\ ModernPass.exc = "none"
        /\ ModernPass.c.rpm_values = <<>>
        /\ urls.Thermal # None

\* the modern pass found PWM values and no RPM value, and Thermal was fetched
C6_Witness ==
    /\ Asked("Thermal")
    /\ Asked("Fan")
    /\ ModernPass.c.pwm_values # <<>>
    /\ ModernPass.c.rpm_values = <<>>

(***************************************************************************)
(* C7.  As claimed: when the modern pass found PWM values and no RPM value *)
(* and the Thermal fallback ran, the PWM gauge holds the mean of the PWM   *)
(* values of the deprecated resource alone.                                *)
(***************************************************************************)
ModernPwmThenFallback ==
    /\ FanReturned
    /\ ModernPass.exc = "none"
    /\ ModernPass.c.rpm_values = <<>>
    /\ ModernPass.c.pwm_values # <<>>
    /\ Asked("Thermal")

C9_OneThermalVariantPerCycle == ~(Asked("ThermalSubsystem") /\ Asked("Thermal"))

(***************************************************************************)
(* C9, as amended.  A cycle fetches both URLs only through the fan RPM     *)
(* fallback: the modern fan pass of that cycle found no RPM value; a cycle *)
(* whose modern fan pass found an RPM value never fetches Thermal.         *)
(***************************************************************************)
C9_BothOnlyByRpmFallback ==
    Asked("Thermal") =>
        /\ Started("Gathering fan data")
        /\ ModernPass.c.rpm_values = <<>>

\* both URLs fetched in a cycle whose modern pass gave temperatures and PWM
C9_Witness ==
    /\ Asked("ThermalSubsystem")
    /\ Asked("Thermal")
    /\ temperature_metrics # <<>>
    /\ ModernPass.c.pwm_values # <<>>

(***************************************************************************)
(* C8.  Every power reading field that is present with value null gave     *)
(* exactly one redfish_power sample, not-a-number, with its labels, and no *)
(* error; an absent field gave no sample.  Checked for the fields of the   *)
(* PowerSubsystem resource, of each modern Metrics resource that was       *)
(* fetched and of each entry of the deprecated PowerSupplies list.         *)
(***************************************************************************)
SamplesWhere(P(_)) == Cardinality({i \in DOMAIN power_metrics : P(power_metrics[i])})

SupplyMetricsRead ==
    {i \in DOMAIN world.Supply :
        /\ \E j \in DOMAIN fetched : fetched[j] = Url("PowerSupplyMetrics", i)
        /\ world.Supply[i].metrics.ok}

IsNull(v) == v = Null \/ v = Sensor(Null)

C8_Subsystem ==
    (pc # "power" /\ Asked("PowerSubsystem") /\ world.PowerSubsystem.ok) =>
        \A m \in {"CapacityWatts", "Allocation"} :
            LET v == world.PowerSubsystem.doc[m] IN
            /\ v = Null =>
                   SamplesWhere(LAMBDA x : x = Sample(NaN, [type |-> m])) = 1
            /\ v = Absent =>
                   SamplesWhere(LAMBDA x : x.labels = [type |-> m]) = 0

C8_Modern ==
    pc # "power" =>
        \A m \in {"PowerInputWatts", "PowerOutputWatts", "PowerCapacityWatts"} :
            /\ SamplesWhere(LAMBDA x : /\ "Name" \in DOMAIN x.labels
                                       /\ x.labels.type = m
                                       /\ x.value = NaN)
                   = Cardinality({i \in SupplyMetricsRead :
                                     IsNull(world.Supply[i].metrics.doc[m])})
            /\ (\A i \in SupplyMetricsRead :
                    world.Supply[i].metrics.doc[m] = Absent)
                   => SamplesWhere(LAMBDA x : /\ "Name" \in DOMAIN x.labels
                                              /\ x.labels.type = m) = 0
            /\ (\E i \in SupplyMetricsRead :
                    IsNull(world.Supply[i].metrics.doc[m]))
                   => exc # "TypeError"

C8_Deprecated ==
    (pc = "temp" /\ Asked("Power") /\ world.Power.ok
        /\ world.Power.doc.PowerSupplies # Absent) =>
        LET psus == world.Power.doc.PowerSupplies.items IN
        \A m \in {"PowerOutputWatts", "EfficiencyPercent", "PowerInputWatts",
                  "LineInputVoltage"} :
            /\ SamplesWhere(LAMBDA x : /\ "device_name" \in DOMAIN x.labels
                                       /\ x.labels.type = m
                                       /\ x.value = NaN)
                   = Cardinality({j \in DOMAIN psus : psus[j][m] = Null})
            /\ SamplesWhere(LAMBDA x : /\ "device_name" \in DOMAIN x.labels
                                       /\ x.labels.type = m)
                   = Cardinality({j \in DOMAIN psus : psus[j][m] # Absent})

C8_NullFieldGivesNanSample == C8_Subsystem /\ C8_Modern /\ C8_Deprecated

(***************************************************************************)
(* C10.  _pwm_from_fan returns the value of the first rule that matches:   *)
(* Reading under a percent unit, DutyCyclePercent, ReadingPercent,         *)
(* Oem.Dell.FanPWM; as a float; None when no rule matches or the value is  *)
(* no number; and raises nothing.                                          *)
(***************************************************************************)
Present(v) == v # Absent /\ v # Null

VendorField(fan) ==
    IF fan.Oem = Absent THEN Absent
    ELSE IF fan.Oem.Dell = Absent THEN Absent
    ELSE fan.Oem.Dell.FanPWM

FirstMatch(fan) ==
    IF fan.ReadingUnits \in {Percent, PercentSign} /\ Present(fan.Reading)
    THEN fan.Reading
    ELSE IF Present(fan.DutyCyclePercent) THEN fan.DutyCyclePercent
    ELSE IF Present(fan.ReadingPercent) THEN fan.ReadingPercent
    ELSE VendorField(fan)

AsFloat(v) ==
    CASE v = Num(0) -> Float(0, 1)
      [] v = Num(42) -> Float(42, 1)
      [] v = Str(<<"4", "2">>) -> Float(42, 1)
      [] OTHER -> None

C10_PwmPriorityAndCoercion ==
    pc = "_pwm_from_fan" => ret = Return(AsFloat(FirstMatch(fan_obj)))

\* Oem.Dell.FanPWM = "42" alone gives 42.0
C10_Witness ==
    /\ pc = "_pwm_from_fan"
    /\ fan_obj = Fan(Absent, Absent, Absent, Absent, Absent,
                     Oem(Dell(Str(<<"4", "2">>))))
    /\ ret = Return(Float(42, 1))

====
